---------------------------- MODULE Spec2Model ----------------------------
(***************************************************************************)
(* Model of the wage-app month engine (src/app/lib/engine/month.ts) and    *)
(* of the Settings object it is handed (src/app/lib/settings.ts).          *)
(*                                                                         *)
(* Numbers.  Hours and money are JavaScript doubles in the source.  The    *)
(* model keeps them as integers counted in hundredths (8.00 h = 800,       *)
(* 17.30 pounds = 1730), does the arithmetic exactly, and rounds half up   *)
(* where the source calls round2.  Values that are not ordinary numbers    *)
(* are the sentinels below: Undef (a missing property), NaN, Inf, NegInf   *)
(* and Huge, a finite double so large (1e308) that adding it to itself or  *)
(* multiplying it by 60 or by 100 overflows to Infinity.                   *)
(*                                                                         *)
(* Time strings are records: fmt = "hm" is a string that matches the       *)
(* pattern of toMinutes with the two numbers hh and mm read from it,       *)
(* fmt = "empty" is "" (or a missing field), fmt = "bad" is any other      *)
(* text.                                                                   *)
(***************************************************************************)
EXTENDS Integers, Sequences, FiniteSets, TLC

VARIABLES
    rows,       \* the ShiftRow list handed to computeMonthTotals
    settings,   \* the Settings object handed to computeMonthTotals
    bds,        \* the row breakdowns b computed by the loop, one per row
    tot,        \* the MonthTotals object returned
    times,      \* the startTime and endTime handed to the time functions
    res,        \* what computeWorkedHours and computeLateNightHours returned
    dsum,       \* hours added up as IEEE doubles: the terms and the total
    drow,       \* one part holiday row in IEEE doubles and its hol bucket
    ls,         \* localStorage item "wagecheck.settings.v1"
    form,       \* the Settings page's state s
    read,       \* the last getSettings() call: the item read and the result
    hrows,      \* the Home page's state rows (the saved shifts)
    editingId,  \* the Home page's state editingId (NoId: null)
    fdate,      \* the Home page's state date (the date input)
    lsMonth,    \* localStorage item "wagecheck.month.v1"
    hpc,        \* the Home page: "start", "loaded" (a setRows is pending)
                \* or "ready"
    now,        \* Date.now()
    atMount,    \* history: lsMonth when the page was mounted
    acted,      \* history: a user action changed rows since the mount
    preview,    \* 'Premiums today' and the saved row's late and night
    pc          \* "call" before the call, "done" after it returned

engineVars == <<rows, settings, bds, tot, times, res, dsum, drow, pc>>
settingsVars == <<ls, form, read>>
homeVars == <<hrows, editingId, fdate, lsMonth, hpc, now, atMount, acted, preview>>
vars == <<engineVars, settingsVars, homeVars>>

\* No part holiday row is being computed.
NoPartRow == [sched |-> <<0, 0, 0, 0, 0>>, hol |-> 0, pc |-> "idle"]

---------------------------------------------------------------------------
(* JavaScript numbers *)

Huge == 1000 * 1000 * 1000
Inf == Huge + 1
NegInf == 0 - Inf
NaN == Huge + 2
Undef == Huge + 3

Min(a, b) == IF a <= b THEN a ELSE b
Max(a, b) == IF a >= b THEN a ELSE b

\* Number.isFinite(n): false for NaN, the infinities and undefined.
IsFinite(n) == n \notin {NaN, Inf, NegInf, Undef}

\* Number(x) || 0 : undefined and NaN become 0.
NumberOr0(x) == IF x \in {Undef, NaN} THEN 0 ELSE x

\* a + b on doubles.
jsAdd(a, b) ==
    IF a \in {NaN, Undef} \/ b \in {NaN, Undef} THEN NaN
    ELSE IF a = Inf \/ b = Inf THEN (IF a = NegInf \/ b = NegInf THEN NaN ELSE Inf)
    ELSE IF a = NegInf \/ b = NegInf THEN NegInf
    ELSE IF a = Huge THEN (IF b = Huge THEN Inf ELSE IF b = 0 - Huge THEN 0 ELSE Huge)
    ELSE IF a = 0 - Huge THEN (IF b = 0 - Huge THEN NegInf ELSE IF b = Huge THEN 0 ELSE a)
    ELSE IF b = Huge \/ b = 0 - Huge THEN b
    ELSE a + b

\* a - b on doubles.
jsSub(a, b) == IF b \in {NaN, Undef} THEN NaN ELSE jsAdd(a, 0 - b)

\* a * b on doubles, for a, b >= 0 (the product of two hundredths counts
\* ten-thousandths).  A Huge factor overflows unless the other is 0.
jsMul(a, b) ==
    IF a \in {NaN, Undef} \/ b \in {NaN, Undef} THEN NaN
    ELSE IF a = 0 \/ b = 0 THEN (IF a = Inf \/ b = Inf THEN NaN ELSE 0)
    ELSE IF a >= Huge \/ b >= Huge THEN Inf
    ELSE a * b

\* Math.max(a, b) and Math.min(a, b): NaN if either is NaN.
jsMax(a, b) == IF a \in {NaN, Undef} \/ b \in {NaN, Undef} THEN NaN
               ELSE IF a = NegInf THEN b ELSE IF b = NegInf THEN a ELSE Max(a, b)
jsMin(a, b) == IF a \in {NaN, Undef} \/ b \in {NaN, Undef} THEN NaN
               ELSE IF a = NegInf \/ b = NegInf THEN NegInf ELSE Min(a, b)

\* round2 applied to the value n/d, n counted in hundredths: Math.round
\* rounds half up; (n + EPSILON) * 100 overflows for a Huge n.
round2(n, d) ==
    IF n \in {NaN, Undef} THEN NaN
    ELSE IF n >= Huge THEN Inf
    ELSE IF n <= 0 - Huge THEN NegInf
    ELSE (2 * n + d) \div (2 * d)

\* round2(p * k) where p counts units of 1/den hundredths and k counts
\* hundredths; the product is split so that no intermediate value leaves
\* the integers TLC computes with.
round2Mul(p, k, den) ==
    IF p \in {NaN, Undef} \/ k \in {NaN, Undef} THEN NaN
    ELSE IF p = 0 \/ k = 0 THEN (IF p = Inf \/ k = Inf THEN NaN ELSE 0)
    ELSE IF p >= Huge \/ k >= Huge THEN Inf
    ELSE (p \div den) * k + round2((p % den) * k, den)

clampNonNeg(n) == IF IsFinite(n) THEN Max(0, n) ELSE 0

---------------------------------------------------------------------------
(* Time strings *)

HM(h, m) == [fmt |-> "hm", hh |-> h, mm |-> m]
EmptyTime == [fmt |-> "empty", hh |-> 0, mm |-> 0]
BadTime == [fmt |-> "bad", hh |-> 0, mm |-> 0]

DayMin == 24 * 60

\* Mutant of toMinutes: the range of hh and mm is not checked.
toMinutes_NoRange(t) ==
    IF t.fmt # "hm" THEN NaN ELSE t.hh * 60 + t.mm

toMinutes(t) ==
    IF t.fmt # "hm" THEN NaN
    ELSE IF t.hh < 0 \/ t.hh > 23 \/ t.mm < 0 \/ t.mm > 59 THEN NaN
    ELSE t.hh * 60 + t.mm

addHoursToTime(startTime, hours) ==
    LET s == toMinutes(startTime)
        mins == round2(jsMul(clampNonNeg(hours), 60), 100)
        total == (s + mins) % DayMin
    IN  IF ~IsFinite(s) THEN EmptyTime
        ELSE IF ~IsFinite(mins) THEN BadTime      \* "NaN:NaN"
        ELSE HM(total \div 60, total % 60)

\* Mutant of computeWorkedHours: only an end before the start is taken
\* to be on the next day.
computeWorkedHours_StrictOvernight(startTime, endTime) ==
    LET s == toMinutes(startTime)
        e0 == toMinutes(endTime)
        e == IF e0 < s THEN e0 + DayMin ELSE e0
        minutes == Max(0, e - s)
    IN  IF ~IsFinite(s) \/ ~IsFinite(e0) THEN 0
        ELSE round2(minutes * 100, 60)

computeWorkedHours(startTime, endTime) ==
    LET s == toMinutes(startTime)
        e0 == toMinutes(endTime)
        e == IF e0 <= s THEN e0 + DayMin ELSE e0
        minutes == Max(0, e - s)
    IN  IF ~IsFinite(s) \/ ~IsFinite(e0) THEN 0
        ELSE round2(minutes * 100, 60)

overlap(sA, eA, sB, eB) == Max(0, Min(eA, eB) - Max(sA, sB))

\* Mutant of computeLateNightHours: only the premium windows of the
\* shift's own day (dayOffset 0) are looked at.
computeLateNightHours_SameDay(startTime, endTime) ==
    LET s0 == toMinutes(startTime)
        e0 == toMinutes(endTime)
        s == s0
        e == IF e0 <= s0 THEN e0 + DayMin ELSE e0
        lateMin == overlap(s, e, 14 * 60, 22 * 60)
        nightMin == overlap(s, e, 22 * 60, 24 * 60) + overlap(s, e, 24 * 60, 30 * 60)
    IN  IF ~IsFinite(s0) \/ ~IsFinite(e0) THEN [lateHours |-> 0, nightHours |-> 0]
        ELSE [lateHours |-> round2(lateMin * 100, 60),
              nightHours |-> round2(nightMin * 100, 60)]

computeLateNightHours(startTime, endTime) ==
    LET s0 == toMinutes(startTime)
        e0 == toMinutes(endTime)
        s == s0
        e == IF e0 <= s0 THEN e0 + DayMin ELSE e0
        late(dayOffset) == overlap(s, e, dayOffset * DayMin + 14 * 60,
                                         dayOffset * DayMin + 22 * 60)
        night(dayOffset) ==
            overlap(s, e, dayOffset * DayMin + 22 * 60, dayOffset * DayMin + 24 * 60)
          + overlap(s, e, dayOffset * DayMin + 24 * 60, dayOffset * DayMin + 30 * 60)
        lateMin == late(0 - 1) + late(0) + late(1)
        nightMin == night(0 - 1) + night(0) + night(1)
    IN  IF ~IsFinite(s0) \/ ~IsFinite(e0) THEN [lateHours |-> 0, nightHours |-> 0]
        ELSE [lateHours |-> round2(lateMin * 100, 60),
              nightHours |-> round2(nightMin * 100, 60)]

---------------------------------------------------------------------------
(* Row breakdown: computeRowBreakdown.  A flag is "", "Y" (full) or "P"   *)
(* (part); a missing flag behaves as "" in every test the code makes.     *)

sched(r) == clampNonNeg(NumberOr0(r.scheduledHours))
whRaw(r) == clampNonNeg(computeWorkedHours(r.startTime, r.endTime))
baseShift(r) == IF sched(r) > 0 THEN sched(r) ELSE whRaw(r)

fullUnpaid(r) == r.unpaidFlag = "Y"
fullHol(r) == r.holidayFlag = "Y"
fullLieu(r) == r.lieuFlag = "Y"
fullBH(r) == r.bankHolFlag = "Y"
fullDouble(r) == r.doubleFlag = "Y"

partUnpaid(r) == r.unpaidFlag = "P"
partHol(r) == r.holidayFlag = "P"
partLieu(r) == r.lieuFlag = "P"
partBH(r) == r.bankHolFlag = "P"
partDouble(r) == r.doubleFlag = "P"

workedPhysical(r) ==
    IF fullUnpaid(r) \/ fullHol(r) \/ fullLieu(r) \/ fullBH(r) THEN 0
    ELSE jsMin(whRaw(r), baseShift(r))

\* let remainder = round2(Math.max(0, baseShift - workedPhysical))
remainderInit(r) == round2(jsMax(0, jsSub(baseShift(r), workedPhysical(r))), 1)

\* Mutant of outInit: sick hours are counted into worked as well.
outInit_SickWorked(r) ==
    [worked |-> jsAdd(workedPhysical(r), clampNonNeg(NumberOr0(r.sickHours))),
     hol |-> 0, lieu |-> 0, bankHol |-> 0, dbl |-> 0,
     unpaidFull |-> 0, unpaidPart |-> 0,
     sick |-> clampNonNeg(NumberOr0(r.sickHours)), late |-> 0, night |-> 0]

\* const out = { worked: workedPhysical, ..., sick: ..., late: 0, night: 0 }
outInit(r) ==
    [worked |-> workedPhysical(r), hol |-> 0, lieu |-> 0, bankHol |-> 0, dbl |-> 0,
     unpaidFull |-> 0, unpaidPart |-> 0,
     sick |-> clampNonNeg(NumberOr0(r.sickHours)), late |-> 0, night |-> 0]

\* Mutant of allocFull: every full flag set fills its bucket (no else).
allocFull_NoElse(r, out) ==
    [out EXCEPT !.unpaidFull = IF fullUnpaid(r) THEN baseShift(r) ELSE @,
                !.hol = IF fullHol(r) THEN baseShift(r) ELSE @,
                !.lieu = IF fullLieu(r) THEN baseShift(r) ELSE @,
                !.bankHol = IF fullBH(r) THEN baseShift(r) ELSE @]

\* FULL allocations: the if / else-if chain; each branch also zeroes remainder.
allocFull(r, out) ==
    IF fullUnpaid(r) THEN [out EXCEPT !.unpaidFull = baseShift(r)]
    ELSE IF fullHol(r) THEN [out EXCEPT !.hol = baseShift(r)]
    ELSE IF fullLieu(r) THEN [out EXCEPT !.lieu = baseShift(r)]
    ELSE IF fullBH(r) THEN [out EXCEPT !.bankHol = baseShift(r)]
    ELSE out

remainderAfterFull(r) ==
    IF fullUnpaid(r) \/ fullHol(r) \/ fullLieu(r) \/ fullBH(r) THEN 0
    ELSE remainderInit(r)

\* Mutant of allocDouble: a part double is half the base shift, taken
\* without regard to the hours worked.
allocDouble_HalfShift(r, out) ==
    IF fullDouble(r) THEN
        [out EXCEPT !.dbl =
            round2(jsMin(baseShift(r),
                         jsMax(0, IF whRaw(r) # 0 THEN whRaw(r) ELSE baseShift(r))), 1)]
    ELSE IF partDouble(r) THEN [out EXCEPT !.dbl = round2(baseShift(r), 2)]
    ELSE out

\* Double allocation.  whRaw || baseShift is baseShift when whRaw is 0;
\* baseShift / 2 is kept exact by comparing the doubled values.
allocDouble(r, out) ==
    IF fullDouble(r) THEN
        [out EXCEPT !.dbl =
            round2(jsMin(baseShift(r),
                         jsMax(0, IF whRaw(r) # 0 THEN whRaw(r) ELSE baseShift(r))), 1)]
    ELSE IF partDouble(r) THEN
        [out EXCEPT !.dbl = round2(jsMin(2 * workedPhysical(r), baseShift(r)), 2)]
    ELSE out

\* Mutant of allocPart: every part flag set receives the remainder.
allocPart_Every(r, out) ==
    LET remainder == remainderAfterFull(r)
    IN  IF remainder > 0 THEN
            [out EXCEPT !.unpaidPart = IF partUnpaid(r) THEN jsAdd(@, remainder) ELSE @,
                        !.hol = IF partHol(r) THEN jsAdd(@, remainder) ELSE @,
                        !.lieu = IF partLieu(r) THEN jsAdd(@, remainder) ELSE @,
                        !.bankHol = IF partBH(r) THEN jsAdd(@, remainder) ELSE @]
        ELSE out

\* PART allocations: remainder is consumed once, in priority order.
allocPart(r, out) ==
    LET remainder == remainderAfterFull(r)
    IN  IF remainder > 0 THEN
            IF partUnpaid(r) THEN [out EXCEPT !.unpaidPart = jsAdd(@, remainder)]
            ELSE IF partHol(r) THEN [out EXCEPT !.hol = jsAdd(@, remainder)]
            ELSE IF partLieu(r) THEN [out EXCEPT !.lieu = jsAdd(@, remainder)]
            ELSE IF partBH(r) THEN [out EXCEPT !.bankHol = jsAdd(@, remainder)]
            ELSE out
        ELSE out

\* Mutant of premiumsBlocked: a full unpaid day is not blocked.
premiumsBlocked_HolOnly(r) == fullHol(r)

\* Mutant of premiumsBlocked: a full holiday is not blocked.
premiumsBlocked_UnpaidOnly(r) == fullUnpaid(r)

premiumsBlocked(r) == fullHol(r) \/ fullUnpaid(r)

premiumsProtected(r) == r.lieuFlag # "" \/ r.bankHolFlag # "" \/ r.doubleFlag # ""

\* Mutant of premEnd: the scheduled end is used whether or not a
\* protecting flag is set.
premEnd_Scheduled(r) ==
    IF sched(r) > 0 THEN addHoursToTime(r.startTime, sched(r)) ELSE r.endTime

premEnd(r) ==
    IF premiumsProtected(r) /\ sched(r) > 0
    THEN addHoursToTime(r.startTime, sched(r))
    ELSE r.endTime

allocPremiums(r, out) ==
    IF ~premiumsBlocked(r) /\ baseShift(r) > 0 /\ r.startTime.fmt # "empty" THEN
        LET p == computeLateNightHours(r.startTime, premEnd(r))
        IN  IF premiumsProtected(r) \/ workedPhysical(r) > 0
            THEN [out EXCEPT !.late = jsAdd(@, clampNonNeg(p.lateHours)),
                             !.night = jsAdd(@, clampNonNeg(p.nightHours))]
            ELSE out
    ELSE out

computeRowBreakdown(r) ==
    allocPremiums(r, allocPart(r, allocDouble(r, allocFull(r, outInit(r)))))

---------------------------------------------------------------------------
(* Month totals: computeMonthTotals *)

emptyMonthTotals ==
    [worked |-> 0, qualifying |-> 0, std |-> 0, ot |-> 0, late |-> 0, night |-> 0,
     hol |-> 0, lieu |-> 0, bankHol |-> 0, dbl |-> 0, unpaidFull |-> 0,
     unpaidPart |-> 0, sick |-> 0,
     stdPay |-> 0, otPay |-> 0, sickPay |-> 0, lateAddPay |-> 0, nightAddPay |-> 0,
     lieuPay |-> 0, bankHolPay |-> 0, doublePay |-> 0, holPay |-> 0, totalPay |-> 0]

\* settings.<name>: reading a property the object does not have gives undefined.
Prop(s, name) == IF name \in DOMAIN s THEN s[name] ELSE Undef

rateBase(s) == clampNonNeg(Prop(s, "baseRate"))
rateOtAdd(s) == clampNonNeg(Prop(s, "otAddOn"))
rateLateAdd(s) == clampNonNeg(Prop(s, "latePremium"))
rateNightAdd(s) == clampNonNeg(Prop(s, "nightPremium"))
\* Mutant of rateHol: holiday hours paid at the base rate.
rateHol_FromBase(s) == clampNonNeg(Prop(s, "baseRate"))
rateHol(s) == clampNonNeg(Prop(s, "holidayRate"))
otThresholdOf(s) == clampNonNeg(Prop(s, "otThreshold"))
rateDouble(s) == clampNonNeg(Prop(s, "doubleRate"))

\* for (const r of rows) { const b = computeRowBreakdown(r); tot.x += b.x; ... }
RECURSIVE sumRows(_, _, _)
sumRows(rs, t, i) ==
    IF i > Len(rs) THEN t
    ELSE LET b == computeRowBreakdown(rs[i])
         IN  sumRows(rs,
                     [t EXCEPT !.worked = jsAdd(@, b.worked),
                               !.hol = jsAdd(@, b.hol),
                               !.lieu = jsAdd(@, b.lieu),
                               !.bankHol = jsAdd(@, b.bankHol),
                               !.dbl = jsAdd(@, b.dbl),
                               !.unpaidFull = jsAdd(@, b.unpaidFull),
                               !.unpaidPart = jsAdd(@, b.unpaidPart),
                               !.sick = jsAdd(@, b.sick),
                               !.late = jsAdd(@, b.late),
                               !.night = jsAdd(@, b.night)],
                     i + 1)

\* Round hour buckets
roundBuckets(t) ==
    [t EXCEPT !.worked = round2(@, 1), !.hol = round2(@, 1), !.lieu = round2(@, 1),
              !.bankHol = round2(@, 1), !.dbl = round2(@, 1), !.late = round2(@, 1),
              !.night = round2(@, 1), !.unpaidFull = round2(@, 1),
              !.unpaidPart = round2(@, 1), !.sick = round2(@, 1)]

\* Mutant of setQualifying: double hours are added again.
setQualifying_WithDouble(t) ==
    [t EXCEPT !.qualifying =
        round2(jsAdd(jsAdd(jsAdd(jsAdd(t.worked, t.hol), t.lieu), t.bankHol), t.dbl), 1)]

\* tot.qualifying = round2(tot.worked + tot.hol + tot.lieu + tot.bankHol)
setQualifying(t) ==
    [t EXCEPT !.qualifying =
        round2(jsAdd(jsAdd(jsAdd(t.worked, t.hol), t.lieu), t.bankHol), 1)]

otRaw(t, s) == jsMax(0, jsSub(t.qualifying, otThresholdOf(s)))
\* Mutant of workedAvailableForStdOt: double hours are not taken off.
workedAvailable_WithDouble(t) == jsMax(0, t.worked)
workedAvailableForStdOt(t) == jsMax(0, jsSub(t.worked, t.dbl))

setOtStd(t, s) ==
    LET ot == round2(jsMin(workedAvailableForStdOt(t), otRaw(t, s)), 1)
    IN  [t EXCEPT !.ot = ot,
                  !.std = round2(jsMax(0, jsSub(workedAvailableForStdOt(t), ot)), 1)]

\* PAY: hours (hundredths) times a rate (hundredths), rounded to hundredths.
setPay(t, s) ==
    [t EXCEPT !.stdPay = round2(jsMul(t.std, rateBase(s)), 100),
              !.otPay = round2(jsMul(t.ot, jsAdd(rateBase(s), rateOtAdd(s))), 100),
              !.sickPay = round2(jsMul(t.sick, rateBase(s)), 100),
              !.lateAddPay = round2(jsMul(t.late, rateLateAdd(s)), 100),
              !.nightAddPay = round2(jsMul(t.night, rateNightAdd(s)), 100),
              !.lieuPay = round2(jsMul(t.lieu, rateBase(s)), 100),
              !.bankHolPay = round2(jsMul(t.bankHol, rateBase(s)), 100),
              !.doublePay = round2Mul(jsMul(t.dbl, rateBase(s)), rateDouble(s), 10000),
              !.holPay = round2(jsMul(t.hol, rateHol(s)), 100)]

\* Mutant of sumPay: holiday pay is left out of the total.
sumPay_NoHol(t) ==
    jsAdd(jsAdd(jsAdd(jsAdd(jsAdd(jsAdd(jsAdd(
        t.stdPay, t.otPay), t.sickPay), t.lateAddPay), t.nightAddPay),
        t.lieuPay), t.bankHolPay), t.doublePay)

sumPay(t) ==
    jsAdd(jsAdd(jsAdd(jsAdd(jsAdd(jsAdd(jsAdd(jsAdd(
        t.stdPay, t.otPay), t.sickPay), t.lateAddPay), t.nightAddPay),
        t.lieuPay), t.bankHolPay), t.doublePay), t.holPay)

setTotalPay(t) == [t EXCEPT !.totalPay = round2(sumPay(t), 1)]

computeMonthTotals(rs, s) ==
    setTotalPay(setPay(setOtStd(setQualifying(roundBuckets(
        sumRows(rs, emptyMonthTotals, 1))), s), s))

---------------------------------------------------------------------------
(* Inputs *)

MaxRows == 2

Flags == {"", "Y", "P"}

Row(sh, st, en, hf, uf, lf, bf, df, sick) ==
    [id |-> "id", date |-> "2026-01-01",
     scheduledHours |-> sh, startTime |-> st, endTime |-> en,
     holidayFlag |-> hf, unpaidFlag |-> uf, lieuFlag |-> lf, bankHolFlag |-> bf,
     doubleFlag |-> df, sickHours |-> sick]

\* Single rows: every combination of the five flags, with times that are
\* missing, malformed, out of range, shorter than, equal to and longer than
\* the scheduled hours, and scheduled hours missing, negative and positive.
RowStarts == {EmptyTime, HM(24, 30), HM(14, 0), HM(22, 0)}
RowEnds == {EmptyTime, BadTime, HM(6, 0), HM(20, 10), HM(22, 0)}
RowScheds == {Undef, 0 - 800, 800, 1000}

AllRows ==
    {Row(sh, st, en, hf, uf, lf, bf, df, Undef) :
        sh \in RowScheds, st \in RowStarts, en \in RowEnds,
        hf \in Flags, uf \in Flags, lf \in Flags, bf \in Flags, df \in Flags}

\* Rows of a month: ordinary days, each kind of absence, and broken records.
MonthRows ==
    { Row(800, HM(6, 0), HM(14, 0), "", "", "", "", "", 0),         \* early shift
      Row(800, HM(14, 0), HM(22, 0), "", "", "", "", "", Undef),    \* late shift
      Row(Undef, HM(22, 0), HM(6, 0), "", "", "", "", "", 0),       \* night shift
      Row(800, HM(6, 0), HM(18, 0), "", "", "", "", "", 0),         \* 12 h on an 8 h day
      Row(1000, EmptyTime, EmptyTime, "Y", "", "", "", "", 0),      \* holiday
      Row(800, EmptyTime, EmptyTime, "", "Y", "", "", "", 0),       \* unpaid
      Row(800, HM(14, 0), EmptyTime, "", "", "Y", "", "", 0),       \* lieu
      Row(775, HM(22, 0), EmptyTime, "", "", "", "Y", "", 0),       \* bank holiday
      Row(800, HM(22, 0), HM(6, 0), "", "", "", "", "Y", 0),        \* double
      Row(1000, HM(6, 0), HM(12, 10), "P", "", "", "", "P", 0),     \* part holiday
      Row(1000, HM(8, 0), HM(12, 0), "", "P", "P", "", "", 250),    \* part unpaid
      Row(0, EmptyTime, EmptyTime, "", "", "", "", "", 800),        \* sick day
      Row(1000, HM(14, 0), HM(20, 0), "P", "", "", "", "", 0),      \* 6 h of a 10 h day
      Row(1000, HM(9, 0), HM(12, 0), "", "", "P", "", "P", 0),      \* part lieu, part double
      Row(3000, HM(14, 0), EmptyTime, "", "", "Y", "", "", 0),      \* lieu for a 30 h duty
      Row(NaN, BadTime, HM(25, 0), "Y", "Y", "P", "", "Y", 0 - 300),
      Row(NegInf, HM(7, 15), HM(7, 15), "", "", "", "P", "", Inf) }

RECURSIVE Lists(_, _)
Lists(S, n) ==
    IF n = 0 THEN {<<>>}
    ELSE Lists(S, n - 1) \cup {Append(l, x) : l \in Lists(S, n - 1), x \in S}

\* DEFAULT_SETTINGS of src/app/lib/settings.ts.
DEFAULT_SETTINGS ==
    [baseRate |-> 1730, otThreshold |-> 16000, otPremiumAdd |-> 670,
     latePremiumAdd |-> 226, nightPremiumAdd |-> 345, doubleRate |-> 3460,
     holidayRate |-> 0]

\* Settings objects: the type Settings of src/app/lib/settings.ts, with
\* ordinary rates and with one rate negative, missing or non-finite.
SettingsSet ==
    [baseRate : {1730}, otThreshold : {16000, 1000}, otPremiumAdd : {670, 0},
     latePremiumAdd : {226}, nightPremiumAdd : {345}, doubleRate : {3460, 150},
     holidayRate : {0, 1525}]
    \cup
    { [DEFAULT_SETTINGS EXCEPT !.baseRate = NaN],
      [DEFAULT_SETTINGS EXCEPT !.baseRate = 0 - 500, !.holidayRate = 1525],
      [DEFAULT_SETTINGS EXCEPT !.otThreshold = Inf, !.holidayRate = 0 - 100],
      [DEFAULT_SETTINGS EXCEPT !.otThreshold = 0 - 1000, !.doubleRate = NegInf],
      [DEFAULT_SETTINGS EXCEPT !.doubleRate = Undef, !.holidayRate = NaN] }

---------------------------------------------------------------------------
(* Settings storage (src/app/lib/settings.ts) and the Settings page        *)
(* (src/app/settings/page.tsx).  The localStorage item is nothing, a text  *)
(* that is not JSON, or a JSON object; a property of the object is a       *)
(* number, null (JNull), a text that is not a number (JText), 1e999 (Inf)  *)
(* or missing (Undef).                                                     *)

JNull == Huge + 4
JText == Huge + 5

SettingsFields == {"baseRate", "otThreshold", "otPremiumAdd", "latePremiumAdd",
                   "nightPremiumAdd", "doubleRate", "holidayRate"}

\* DEFAULTS of src/app/settings/page.tsx.
DEFAULTS ==
    [baseRate |-> 1730, otThreshold |-> 16000, otPremiumAdd |-> 0,
     latePremiumAdd |-> 0, nightPremiumAdd |-> 0, doubleRate |-> 0,
     holidayRate |-> 0]

EmptyObj == [f \in SettingsFields |-> Undef]
NoItem == [kind |-> "none", obj |-> EmptyObj]
BadJson == [kind |-> "bad", obj |-> EmptyObj]

\* JSON.stringify(s): NaN and the infinities are written as null.
stringify(st) ==
    [kind |-> "obj",
     obj |-> [f \in SettingsFields |-> IF IsFinite(st[f]) THEN st[f] ELSE JNull]]

\* Number(x) for a parsed JSON value: Number(null) is 0.
jsNumber(x) ==
    IF x = JNull THEN 0 ELSE IF x \in {Undef, JText} THEN NaN ELSE x

safeNum(x, fallback) ==
    IF IsFinite(jsNumber(x)) THEN jsNumber(x) ELSE fallback

getSettings(item) ==
    IF item.kind = "none" THEN DEFAULT_SETTINGS            \* if (!raw)
    ELSE IF item.kind = "bad" THEN DEFAULT_SETTINGS        \* catch
    ELSE [f \in SettingsFields |-> safeNum(item.obj[f], DEFAULT_SETTINGS[f])]

\* safeNumber of the Settings page.
safeNumber(n, fallback) ==
    IF IsFinite(jsNumber(n)) THEN jsNumber(n) ELSE fallback

\* The Settings page's mount effect, applied to the state prev.
loadSettingsPage(prev, item) ==
    IF item.kind # "obj" THEN prev
    ELSE [f \in SettingsFields |-> safeNumber(item.obj[f], prev[f])]

\* The settings variables while no settings code runs.
SettingsIdle ==
    /\ ls = NoItem
    /\ form = DEFAULTS
    /\ read = [raw |-> NoItem, value |-> DEFAULT_SETTINGS]

\* Items found in storage at the start: nothing, broken text, "{}", and
\* objects with a text, 1e999 or a negative number in one property.
StoredAtStart ==
    { NoItem, BadJson, [kind |-> "obj", obj |-> EmptyObj],
      [kind |-> "obj", obj |-> [stringify(DEFAULT_SETTINGS).obj EXCEPT !.baseRate = JText]],
      [kind |-> "obj", obj |-> [stringify(DEFAULT_SETTINGS).obj EXCEPT !.doubleRate = Inf]],
      [kind |-> "obj", obj |-> [EmptyObj EXCEPT !.holidayRate = 0 - 100]] }

\* The inputs edited and the values Number(e.target.value) gives them:
\* a number, or NaN for a text that is not one.
EditedFields == {"baseRate", "latePremiumAdd"}
FormValues == {NaN, 1234}

\* The Settings page opens: useState(DEFAULTS), then the mount effect.
SettingsPageMount ==
    /\ form' = loadSettingsPage(DEFAULTS, ls)
    /\ UNCHANGED <<ls, read, engineVars, homeVars>>

\* onChange of an input: setS((prev) => ({ ...prev, f: Number(...) })).
SetField ==
    /\ \E f \in EditedFields : \E v \in FormValues :
           form' = [form EXCEPT ![f] = v]
    /\ UNCHANGED <<ls, read, engineVars, homeVars>>

save ==
    /\ ls' = stringify(form)
    /\ UNCHANGED <<form, read, engineVars, homeVars>>

restoreDefaults ==
    /\ form' = DEFAULTS
    /\ ls' = stringify(DEFAULTS)
    /\ UNCHANGED <<read, engineVars, homeVars>>

\* The Home page's mount effect: const s = getSettings(); setSettings(s).
HomeGetSettings ==
    /\ read' = [raw |-> ls, value |-> getSettings(ls)]
    /\ UNCHANGED <<ls, form, engineVars, homeVars>>


---------------------------------------------------------------------------
(* The Home page (src/app/page.tsx): the saved shifts, their storage and   *)
(* the handlers.  A saved row is kept as its id and its date; the id       *)
(* `${date}-${Date.now()}` is the pair of the date and the time of the     *)
(* save.  The stored item is nothing or the JSON of a list of rows.        *)

NoId == <<"", 0>>
NoList == [kind |-> "none", list |-> <<>>]
StoredList(l) == [kind |-> "list", list |-> l]

Dates == {"2026-01-01", "2026-01-02"}
Today == "2026-01-01"

\* Date.now() moves on between two saves; MaxClock bounds the saves.
MaxClock == 3

NoPreview ==
    [pc |-> "idle", lateHours |-> 0, nightHours |-> 0, late |-> 0, night |-> 0,
     day |-> [scheduledHours |-> Undef, startTime |-> EmptyTime,
              endTime |-> EmptyTime, holidayFlag |-> "", unpaidFlag |-> "",
              lieuFlag |-> "", bankHolFlag |-> "", doubleFlag |-> "",
              sickHours |-> Undef]]

\* useState initial values.
HomeState ==
    /\ hrows = <<>>
    /\ editingId = NoId
    /\ fdate = Today

\* The Home variables while no Home page code runs.
HomeQuiet ==
    /\ HomeState
    /\ lsMonth = NoList /\ hpc = "start" /\ now = 0
    /\ atMount = NoList /\ acted = FALSE

HomeIdle == HomeQuiet /\ preview = NoPreview

\* The lists found in storage when the page is first opened.
ListsAtStart ==
    { NoList, StoredList(<<>>),
      StoredList(<<[id |-> <<"2026-01-02", 0>>, date |-> "2026-01-02"]>>) }

SeqFilter(q, Keep(_)) ==
    LET RECURSIVE F(_)
        F(i) == IF i > Len(q) THEN <<>>
                ELSE IF Keep(q[i]) THEN <<q[i]>> \o F(i + 1) ELSE F(i + 1)
    IN  F(1)

\* The first commit's effects: the load effect reads the item and calls
\* setRows(parsed) when it is an array; the persist effect then writes
\* the rows of this render, the initial [].
HomeMount ==
    /\ hpc = "start"
    /\ atMount' = lsMonth /\ acted' = FALSE
    /\ lsMonth' = StoredList(hrows)
    /\ hpc' = IF lsMonth.kind = "list" THEN "loaded" ELSE "ready"
    /\ UNCHANGED <<hrows, editingId, fdate, now, preview, engineVars, settingsVars>>

\* The render that follows setRows(parsed), and its persist effect.
HomeRender ==
    /\ hpc = "loaded"
    /\ hrows' = atMount.list
    /\ lsMonth' = StoredList(atMount.list)
    /\ hpc' = "ready"
    /\ UNCHANGED <<editingId, fdate, now, atMount, acted, preview,
                   engineVars, settingsVars>>

\* The date input.
setDate ==
    /\ hpc = "ready"
    /\ \E d \in Dates : fdate' = d
    /\ UNCHANGED <<hrows, editingId, lsMonth, hpc, now, atMount, acted, preview,
                   engineVars, settingsVars>>

\* saveDayToMonth, the render and the persist effect.  The 'Save day to
\* month' button is rendered only while no row is being edited.
saveDayToMonth ==
    /\ hpc = "ready"
    /\ editingId = NoId
    /\ now < MaxClock
    /\ now' = now + 1
    /\ hrows' = <<[id |-> <<fdate, now'>>, date |-> fdate]>> \o hrows
    /\ lsMonth' = StoredList(hrows')
    /\ acted' = TRUE
    /\ UNCHANGED <<editingId, fdate, hpc, atMount, preview, engineVars, settingsVars>>

\* deleteShift(id), confirmed.
deleteShift ==
    /\ hpc = "ready"
    /\ \E i \in 1..Len(hrows) :
        LET Keep(r) == r.id # hrows[i].id
        IN  hrows' = SeqFilter(hrows, Keep)
    /\ lsMonth' = StoredList(hrows')
    /\ acted' = TRUE
    /\ UNCHANGED <<editingId, fdate, hpc, now, atMount, preview,
                   engineVars, settingsVars>>

\* loadShiftForEdit(row): the Edit button of a saved row.
loadShiftForEdit ==
    /\ hpc = "ready"
    /\ \E i \in 1..Len(hrows) :
        /\ fdate' = hrows[i].date
        /\ editingId' = hrows[i].id
    /\ UNCHANGED <<hrows, lsMonth, hpc, now, atMount, acted, preview,
                   engineVars, settingsVars>>

\* updateShift: if (!editingId) return; otherwise the rows are mapped.
updateShift ==
    /\ hpc = "ready"
    /\ editingId # NoId
    /\ hrows' = [i \in 1..Len(hrows) |->
                    IF hrows[i].id = editingId
                    THEN [hrows[i] EXCEPT !.date = fdate]
                    ELSE hrows[i]]
    /\ editingId' = NoId
    /\ lsMonth' = StoredList(hrows')
    /\ acted' = TRUE
    /\ UNCHANGED <<fdate, hpc, now, atMount, preview, engineVars, settingsVars>>

cancelEdit ==
    /\ hpc = "ready"
    /\ editingId # NoId
    /\ editingId' = NoId
    /\ UNCHANGED <<hrows, fdate, lsMonth, hpc, now, atMount, acted, preview,
                   engineVars, settingsVars>>

\* clearMonth, confirmed.
clearMonth ==
    /\ hpc = "ready"
    /\ hrows' = <<>>
    /\ lsMonth' = StoredList(<<>>)
    /\ acted' = TRUE
    /\ UNCHANGED <<editingId, fdate, hpc, now, atMount, preview,
                   engineVars, settingsVars>>

\* The page is closed and opened again: the state is the initial state,
\* the stored item stays.
HomeReload ==
    /\ hrows' = <<>> /\ editingId' = NoId /\ fdate' = Today
    /\ hpc' = "start"
    /\ UNCHANGED <<lsMonth, now, atMount, acted, preview, engineVars, settingsVars>>

\* The engine variables while no engine function is called.
EngineIdle ==
    /\ pc = "call"
    /\ rows = <<>> /\ settings = DEFAULT_SETTINGS
    /\ bds = <<>> /\ tot = emptyMonthTotals
    /\ times = [startTime |-> EmptyTime, endTime |-> EmptyTime]
    /\ res = [worked |-> 0, lateHours |-> 0, nightHours |-> 0]
    /\ dsum = [terms |-> <<>>, hol |-> 0]
    /\ drow = NoPartRow

InitHome ==
    /\ EngineIdle
    /\ SettingsIdle
    /\ HomeState
    /\ lsMonth \in ListsAtStart /\ hpc = "start" /\ now = 0
    /\ atMount = lsMonth /\ acted = FALSE
    /\ preview = NoPreview

NextHome ==
    \/ HomeMount
    \/ HomeRender
    \/ setDate
    \/ saveDayToMonth
    \/ deleteShift
    \/ loadShiftForEdit
    \/ updateShift
    \/ cancelEdit
    \/ clearMonth
    \/ HomeReload

SpecHome == InitHome /\ [][NextHome]_vars

InitSettings ==
    /\ EngineIdle
    /\ ls \in StoredAtStart
    /\ form = DEFAULTS
    /\ read = [raw |-> NoItem, value |-> DEFAULT_SETTINGS]
    /\ HomeIdle

NextSettings ==
    \/ SettingsPageMount
    \/ SetField
    \/ save
    \/ restoreDefaults
    \/ HomeGetSettings

SpecSettings == InitSettings /\ [][NextSettings]_vars

---------------------------------------------------------------------------
(* Home page: the 'Premiums today' preview and the page's own            *)
(* computeRowBreakdown.  The page's round2, clampNonNeg, toMinutes,       *)
(* computeWorkedHours, computeLateNightHours and addHoursToTime have the  *)
(* same bodies as the engine's, so the operators above stand for both.    *)

isOffFullFlag(r) ==
    r.unpaidFlag = "Y" \/ r.holidayFlag = "Y" \/ r.lieuFlag = "Y" \/ r.bankHolFlag = "Y"

\* const scheduledPortion = sh > 0 ? sh : whRaw
scheduledPortion(r) == IF sched(r) > 0 THEN sched(r) ELSE whRaw(r)

\* const workedPhysical = isOffFullFlag(r) ? 0 : whRaw
pageWorkedPhysical(r) == IF isOffFullFlag(r) THEN 0 ELSE whRaw(r)

pageOutInit(r) ==
    [worked |-> pageWorkedPhysical(r), hol |-> 0, lieu |-> 0, bankHol |-> 0,
     dbl |-> 0, unpaidFull |-> 0, unpaidPart |-> 0,
     sick |-> clampNonNeg(NumberOr0(r.sickHours)), late |-> 0, night |-> 0]

\* The full flags in an if / else-if chain that ends with the part flags;
\* takeRemainder zeroes remainder, so the first part flag set takes it all.
pageAllocFlags(r, out) ==
    IF r.unpaidFlag = "Y" THEN [out EXCEPT !.unpaidFull = scheduledPortion(r)]
    ELSE IF r.holidayFlag = "Y" THEN [out EXCEPT !.hol = scheduledPortion(r)]
    ELSE IF r.lieuFlag = "Y" THEN [out EXCEPT !.lieu = scheduledPortion(r)]
    ELSE IF r.bankHolFlag = "Y" THEN [out EXCEPT !.bankHol = scheduledPortion(r)]
    ELSE IF r.doubleFlag = "Y" THEN [out EXCEPT !.dbl = scheduledPortion(r)]
    ELSE
        LET remainder ==
                round2(jsMax(0, jsSub(scheduledPortion(r), pageWorkedPhysical(r))), 1)
        IN  IF ~(remainder > 0) THEN out
            ELSE IF r.unpaidFlag = "P" THEN [out EXCEPT !.unpaidPart = jsAdd(@, remainder)]
            ELSE IF r.holidayFlag = "P" THEN [out EXCEPT !.hol = jsAdd(@, remainder)]
            ELSE IF r.lieuFlag = "P" THEN [out EXCEPT !.lieu = jsAdd(@, remainder)]
            ELSE IF r.bankHolFlag = "P" THEN [out EXCEPT !.bankHol = jsAdd(@, remainder)]
            ELSE IF r.doubleFlag = "P" THEN [out EXCEPT !.dbl = jsAdd(@, remainder)]
            ELSE out

\* The end of the premium window of a protected row or form: the scheduled
\* end, or the actual end when a double day ran over its scheduled hours;
\* worked is what the caller compares with sh.
pagePremEnd(r, worked) ==
    LET schedEnd == IF sched(r) > 0 THEN addHoursToTime(r.startTime, sched(r))
                    ELSE r.endTime
    IN  IF r.doubleFlag # "" /\ sched(r) > 0 /\ worked > sched(r)
           /\ r.endTime.fmt # "empty"
        THEN r.endTime
        ELSE schedEnd

pageAllocPremiums(r, out) ==
    IF ~premiumsBlocked(r) /\ r.startTime.fmt # "empty" THEN
        IF premiumsProtected(r) THEN
            LET p == computeLateNightHours(r.startTime,
                                           pagePremEnd(r, pageWorkedPhysical(r)))
            IN  [out EXCEPT !.late = jsAdd(@, clampNonNeg(p.lateHours)),
                            !.night = jsAdd(@, clampNonNeg(p.nightHours))]
        ELSE IF pageWorkedPhysical(r) > 0 THEN
            LET p == computeLateNightHours(r.startTime, r.endTime)
            IN  [out EXCEPT !.late = jsAdd(@, clampNonNeg(p.lateHours)),
                            !.night = jsAdd(@, clampNonNeg(p.nightHours))]
        ELSE out
    ELSE out

pageComputeRowBreakdown(r) == pageAllocPremiums(r, pageAllocFlags(r, pageOutInit(r)))

\* const prem = useMemo(...): the preview, from the form inputs d.
prem(d) ==
    LET wh == whRaw(d)
    IN  IF premiumsBlocked(d) \/ d.startTime.fmt = "empty"
        THEN [lateHours |-> 0, nightHours |-> 0]
        ELSE IF premiumsProtected(d)
        THEN computeLateNightHours(d.startTime, pagePremEnd(d, wh))
        ELSE IF wh <= 0 THEN [lateHours |-> 0, nightHours |-> 0]
        ELSE computeLateNightHours(d.startTime, d.endTime)

\* The row saveDayToMonth builds from the form inputs d (id and date left
\* out): scheduledHours and sickHours become clamped numbers.
rowOfDay(d) ==
    [d EXCEPT !.scheduledHours = clampNonNeg(NumberOr0(d.scheduledHours)),
              !.sickHours = clampNonNeg(NumberOr0(d.sickHours))]

\* The form inputs: every single row of AllRows read as what was typed.
DayInputs ==
    { [f \in DOMAIN NoPreview.day |-> r[f]] : r \in AllRows }

\* The page is showing the preview for the inputs typed so far.
InitPreview ==
    /\ EngineIdle
    /\ SettingsIdle
    /\ HomeQuiet
    /\ \E d \in DayInputs :
           preview = [pc |-> "form", day |-> d,
                      lateHours |-> prem(d).lateHours,
                      nightHours |-> prem(d).nightHours,
                      late |-> 0, night |-> 0]

\* 'Save day': the row is built from the inputs and the month memo calls
\* computeRowBreakdown on it; lateHours and nightHours keep what the
\* preview showed when the button was pressed.
SavePreviewedDay ==
    /\ preview.pc = "form"
    /\ LET b == pageComputeRowBreakdown(rowOfDay(preview.day))
       IN  preview' = [preview EXCEPT !.pc = "saved", !.late = b.late,
                                      !.night = b.night]
    /\ UNCHANGED <<hrows, editingId, fdate, lsMonth, hpc, now, atMount, acted,
                   engineVars, settingsVars>>

NextPreview == SavePreviewedDay

SpecPreview == InitPreview /\ [][NextPreview]_vars

---------------------------------------------------------------------------
(* The call *)

InitCall ==
    /\ pc = "call"
    /\ bds = <<>>
    /\ tot = emptyMonthTotals
    /\ times = [startTime |-> EmptyTime, endTime |-> EmptyTime]
    /\ res = [worked |-> 0, lateHours |-> 0, nightHours |-> 0]
    /\ dsum = [terms |-> <<>>, hol |-> 0]
    /\ drow = NoPartRow
    /\ SettingsIdle
    /\ HomeIdle

Init ==
    /\ InitCall
    /\ \/ rows \in {<<r>> : r \in AllRows} /\ settings = DEFAULT_SETTINGS
       \/ rows \in Lists(MonthRows, MaxRows) /\ settings \in SettingsSet

\* const tot = computeMonthTotals(rows, settings); bds records the b of
\* each turn of its loop.
ComputeMonthTotals ==
    /\ pc = "call"
    /\ bds' = [i \in 1..Len(rows) |-> computeRowBreakdown(rows[i])]
    /\ tot' = computeMonthTotals(rows, settings)
    /\ pc' = "done"
    /\ UNCHANGED <<rows, settings, times, res, dsum, drow, settingsVars, homeVars>>

Next == ComputeMonthTotals

Spec == Init /\ [][Next]_vars

\* The same call on inputs that also hold very large finite numbers.
WideRows ==
    MonthRows \cup
    { Row(Huge, EmptyTime, EmptyTime, "", "Y", "", "", "", 0),
      Row(Huge, HM(6, 0), HM(14, 0), "Y", "", "", "", "", 0),
      Row(Huge, HM(22, 0), HM(6, 0), "", "", "P", "", "Y", 0),
      Row(800, HM(6, 0), HM(14, 0), "", "", "", "", "", Huge) }

InitWide ==
    /\ InitCall
    /\ rows \in Lists(WideRows, MaxRows)
    /\ settings \in SettingsSet

SpecWide == InitWide /\ [][Next]_vars

\* The same call on every single row with the default settings, and on
\* short months of days that differ in their flags and sick hours.
SickRows ==
    { Row(800, HM(6, 0), HM(14, 0), "", "", "", "", "", 0),
      Row(1000, HM(8, 0), HM(12, 0), "", "P", "P", "", "", 250),
      Row(0, EmptyTime, EmptyTime, "", "", "", "", "", 800),
      Row(800, HM(22, 0), HM(6, 0), "", "", "", "", "Y", 0),
      Row(1000, EmptyTime, EmptyTime, "Y", "", "", "", "", Undef) }

SickSettings ==
    { DEFAULT_SETTINGS,
      [DEFAULT_SETTINGS EXCEPT !.otThreshold = 1000, !.holidayRate = 1525],
      [DEFAULT_SETTINGS EXCEPT !.baseRate = 0 - 500] }

InitSick ==
    /\ InitCall
    /\ \/ rows \in {<<r>> : r \in AllRows} /\ settings = DEFAULT_SETTINGS
       \/ rows \in Lists(SickRows, MaxRows) /\ settings \in SickSettings

SpecSick == InitSick /\ [][Next]_vars

---------------------------------------------------------------------------
(* Doubles bit for bit.  The totals loop adds the rows' hours with += and *)
(* rounds the sum with round2; on hours that are not multiples of 0.01    *)
(* the result depends on how each addition rounds.  Here a double >= 1 is *)
(* the whole number of units of 2^-52 (Number.EPSILON) it holds, written  *)
(* as five limbs of 15 bits, lowest first, and every operation rounds to  *)
(* 53 significant bits, ties to even, as IEEE 754 does.                   *)

Limb == 2 ^ 15

BigAdd(a, b) ==
    LET s1 == a[1] + b[1]
        s2 == a[2] + b[2] + s1 \div Limb
        s3 == a[3] + b[3] + s2 \div Limb
        s4 == a[4] + b[4] + s3 \div Limb
        s5 == a[5] + b[5] + s4 \div Limb
    IN  <<s1 % Limb, s2 % Limb, s3 % Limb, s4 % Limb, s5>>

BigMul(a, m) ==
    LET p1 == a[1] * m
        p2 == a[2] * m + p1 \div Limb
        p3 == a[3] * m + p2 \div Limb
        p4 == a[4] * m + p3 \div Limb
        p5 == a[5] * m + p4 \div Limb
    IN  <<p1 % Limb, p2 % Limb, p3 % Limb, p4 % Limb, p5>>

\* Number of significant bits of a limb and of a whole number.
LimbLen(x) == CHOOSE n \in 0..30 : x < 2 ^ n /\ (n = 0 \/ x >= 2 ^ (n - 1))
BitLen(a) ==
    IF a[5] # 0 THEN 60 + LimbLen(a[5])
    ELSE IF a[4] # 0 THEN 45 + LimbLen(a[4])
    ELSE IF a[3] # 0 THEN 30 + LimbLen(a[3])
    ELSE IF a[2] # 0 THEN 15 + LimbLen(a[2])
    ELSE LimbLen(a[1])

\* The double nearest to the exact value a: the k bits beyond the 53rd
\* are dropped, rounding to nearest, ties to even (k <= 15 here).
RoundToDouble(a) ==
    LET k == BitLen(a) - 53
        r == a[1] % (2 ^ k)
        half == 2 ^ (k - 1)
        odd == IF k < 15 THEN (a[1] \div (2 ^ k)) % 2 = 1 ELSE a[2] % 2 = 1
        down == [a EXCEPT ![1] = a[1] - r]
        ulp == IF k < 15 THEN <<2 ^ k, 0, 0, 0, 0>> ELSE <<0, 1, 0, 0, 0>>
    IN  IF k <= 0 THEN a
        ELSE IF r > half \/ (r = half /\ odd) THEN BigAdd(down, ulp)
        ELSE down

doubleAdd(a, b) == RoundToDouble(BigAdd(a, b))

\* Math.round((n + Number.EPSILON) * 100): the result in hundredths.
\* Math.round(x) is floor(x + 1/2): 2^51 units are added and the 52 bits
\* of the fraction dropped.
round2Double(n) ==
    LET x == RoundToDouble(BigMul(doubleAdd(n, <<1, 0, 0, 0, 0>>), 100))
        y == BigAdd(x, <<0, 0, 0, 2 ^ 6, 0>>)
    IN  y[4] \div (2 ^ 7) + y[5] * (2 ^ 8)

\* for (const r of rows) { ... tot.hol += b.hol; ... }
RECURSIVE sumDoubles(_, _, _)
sumDoubles(terms, acc, i) ==
    IF i > Len(terms) THEN acc
    ELSE sumDoubles(terms, doubleAdd(acc, terms[i]), i + 1)

\* tot.hol of a month of full holidays whose scheduledHours are terms.
holTotal(terms) == round2Double(sumDoubles(terms, <<0, 0, 0, 0, 0>>, 1))

\* The doubles 7.5, 7.75, 8, 1.115, 7.005 and 2.675 (what Number() makes
\* of these texts: 0x11D70A3D70A3D7, 0x70147AE147AE14 and
\* 0x2ACCCCCCCCCCCC units for the last three).
DoubleHours ==
    { <<0, 0, 0, 960, 0>>, <<0, 0, 0, 992, 0>>, <<0, 0, 0, 1024, 0>>,
      <<9175, 31457, 23592, 142, 0>>, <<11796, 17039, 20971, 896, 0>>,
      <<19660, 6553, 13107, 342, 0>> }

MaxTerms == 3

InitDoubles ==
    /\ pc = "call"
    /\ rows = <<>> /\ settings = DEFAULT_SETTINGS
    /\ bds = <<>> /\ tot = emptyMonthTotals
    /\ times = [startTime |-> EmptyTime, endTime |-> EmptyTime]
    /\ res = [worked |-> 0, lateHours |-> 0, nightHours |-> 0]
    /\ dsum \in [terms : Lists(DoubleHours, MaxTerms), hol : {0}]
    /\ drow \in [sched : DoubleHours, hol : {0}, pc : {"call"}]
    /\ SettingsIdle
    /\ HomeIdle

\* The hol total of computeMonthTotals for these rows.
SumHolidayHours ==
    /\ pc = "call"
    /\ dsum' = [dsum EXCEPT !.hol = holTotal(dsum.terms)]
    /\ pc' = "done"
    /\ UNCHANGED <<rows, settings, bds, tot, times, res, drow, settingsVars, homeVars>>

\* computeRowBreakdown of the row { scheduledHours: d, holidayFlag: "P" }
\* with no times: whRaw is 0, baseShift is d, workedPhysical is
\* Math.min(0, d) = 0, remainder is round2(Math.max(0, d - 0)) and
\* the part holiday branch adds it to out.hol, which was 0.  The result is
\* kept in hundredths, the whole number Math.round gave.
partHolidayHol(d) == round2Double(d)

PartHolidayRow ==
    /\ drow.pc = "call"
    /\ drow' = [drow EXCEPT !.hol = partHolidayHol(drow.sched), !.pc = "done"]
    /\ UNCHANGED <<rows, settings, bds, tot, times, res, dsum, pc,
                   settingsVars, homeVars>>

NextDoubles == SumHolidayHours \/ PartHolidayRow

SpecDoubles == InitDoubles /\ [][NextDoubles]_vars

\* The two time functions on their own, called with valid "HH:MM" strings
\* on both sides of each premium window boundary and of midnight.
TimeHours == 0..23
TimeMinutes == {0, 1, 59}
ValidTimes == {HM(h, m) : h \in TimeHours, m \in TimeMinutes}

InitTimes ==
    /\ pc = "call"
    /\ rows = <<>> /\ settings = DEFAULT_SETTINGS
    /\ bds = <<>> /\ tot = emptyMonthTotals
    /\ times \in [startTime : ValidTimes, endTime : ValidTimes]
    /\ res = [worked |-> 0, lateHours |-> 0, nightHours |-> 0]
    /\ dsum = [terms |-> <<>>, hol |-> 0]
    /\ drow = NoPartRow
    /\ SettingsIdle
    /\ HomeIdle

\* computeWorkedHours(startTime, endTime) and
\* computeLateNightHours(startTime, endTime).
ComputeTimes ==
    /\ pc = "call"
    /\ res' = [worked |-> computeWorkedHours(times.startTime, times.endTime),
               lateHours |->
                   computeLateNightHours(times.startTime, times.endTime).lateHours,
               nightHours |->
                   computeLateNightHours(times.startTime, times.endTime).nightHours]
    /\ pc' = "done"
    /\ UNCHANGED <<rows, settings, bds, tot, times, dsum, drow, settingsVars, homeVars>>

NextTimes == ComputeTimes

SpecTimes == InitTimes /\ [][NextTimes]_vars

---------------------------------------------------------------------------
(* Notions the claims are stated in *)

\* The base shift length: scheduledHours if positive, otherwise the
\* computed worked hours.
BaseShiftLength(r) ==
    IF IsFinite(r.scheduledHours) /\ r.scheduledHours > 0
    THEN r.scheduledHours
    ELSE computeWorkedHours(r.startTime, r.endTime)

Done == pc = "done"
RowIdx == 1..Len(rows)

HourFields == {"worked", "qualifying", "std", "ot", "late", "night", "hol", "lieu",
               "bankHol", "dbl", "unpaidFull", "unpaidPart", "sick"}
PayFields == {"stdPay", "otPay", "sickPay", "lateAddPay", "nightAddPay", "lieuPay",
              "bankHolPay", "doublePay", "holPay", "totalPay"}

\* The first full-day flag set, in the order unpaid, holiday, lieu,
\* bankHoliday, named by the bucket it fills.
FirstFull(r) ==
    IF r.unpaidFlag = "Y" THEN "unpaidFull"
    ELSE IF r.holidayFlag = "Y" THEN "hol"
    ELSE IF r.lieuFlag = "Y" THEN "lieu"
    ELSE IF r.bankHolFlag = "Y" THEN "bankHol"
    ELSE "none"

NoFlags(r) ==
    /\ r.holidayFlag = "" /\ r.unpaidFlag = "" /\ r.lieuFlag = ""
    /\ r.bankHolFlag = "" /\ r.doubleFlag = ""

---------------------------------------------------------------------------
(* Claims *)

\* C1: every hour field and every pay field returned by computeMonthTotals
\* is finite and >= 0, for every list of rows and every settings object.
C1_AllFieldsFiniteNonNeg ==
    Done => \A f \in HourFields \cup PayFields : IsFinite(tot[f]) /\ tot[f] >= 0


\* C2: when one or more of the full-day flags unpaid, holiday, lieu,
\* bankHoliday is set, the bucket of the first one set (in that order)
\* receives the base shift length, and the other three buckets, unpaidPart
\* and worked are 0, whatever part flags are also set.
C2_FullFlagPrecedence ==
    Done => \A i \in RowIdx :
        LET r == rows[i]
            b == bds[i]
            first == FirstFull(r)
        IN  first # "none" =>
              /\ b[first] = BaseShiftLength(r)
              /\ \A f \in {"unpaidFull", "hol", "lieu", "bankHol"} \ {first} : b[f] = 0
              /\ b.unpaidPart = 0
              /\ b.worked = 0

\* Two full flags and a part flag on a day with hours: holiday wins.
C2_Witness ==
    /\ Done
    /\ \E i \in RowIdx :
        /\ rows[i].unpaidFlag = "P" /\ rows[i].holidayFlag = "Y"
        /\ rows[i].lieuFlag = "Y" /\ rows[i].bankHolFlag = "Y"
        /\ bds[i].hol = 1000 /\ bds[i].lieu = 0 /\ bds[i].bankHol = 0

\* C3: with workedEligible = max(0, worked - dbl) and rawOvertime =
\* max(0, qualifying - otThreshold): ot = min(workedEligible, rawOvertime)
\* and std = max(0, workedEligible - ot); so ot <= workedEligible,
\* ot + std = workedEligible, and ot = 0 whenever qualifying <= otThreshold.
C3_OvertimeSplit ==
    Done =>
        LET workedEligible == Max(0, tot.worked - tot.dbl)
            threshold == clampNonNeg(settings.otThreshold)
            rawOvertime == Max(0, tot.qualifying - threshold)
        IN  /\ tot.ot = Min(workedEligible, rawOvertime)
            /\ tot.std = Max(0, workedEligible - tot.ot)
            /\ tot.ot <= workedEligible
            /\ tot.ot + tot.std = workedEligible
            /\ (tot.qualifying <= threshold => tot.ot = 0)

\* A month over the threshold whose double hours are kept out of both
\* overtime and standard hours.
C3_Witness ==
    /\ Done
    /\ tot.dbl > 0 /\ tot.ot > 0 /\ tot.std > 0
    /\ tot.qualifying - clampNonNeg(settings.otThreshold) < tot.worked

\* C4: totalPay equals stdPay + otPay + sickPay + lateAddPay + nightAddPay
\* + lieuPay + bankHolPay + doublePay + holPay of the same result.
C4_TotalPayIsSumOfNine ==
    Done =>
        tot.totalPay = tot.stdPay + tot.otPay + tot.sickPay + tot.lateAddPay
                       + tot.nightAddPay + tot.lieuPay + tot.bankHolPay
                       + tot.doublePay + tot.holPay

\* A month with standard, sick, lieu, double and holiday pay at once.
C4_Witness ==
    /\ Done
    /\ tot.stdPay > 0 /\ tot.sickPay > 0 /\ tot.holPay > 0 /\ tot.doublePay > 0
    /\ tot.totalPay > tot.stdPay + tot.sickPay + tot.doublePay


\* C5: the add-on rates held in the Settings object are the ones applied:
\* otPay = ot x (baseRate + otPremiumAdd), lateAddPay = late x
\* latePremiumAdd and nightAddPay = night x nightPremiumAdd.
C5_AddOnRatesApplied ==
    Done =>
        LET base == clampNonNeg(settings.baseRate)
        IN  /\ tot.otPay = round2(tot.ot * (base + settings.otPremiumAdd), 100)
            /\ tot.lateAddPay = round2(tot.late * settings.latePremiumAdd, 100)
            /\ tot.nightAddPay = round2(tot.night * settings.nightPremiumAdd, 100)

\* C6: stdPay = std x baseRate, sickPay = sick x baseRate, lieuPay = lieu x
\* baseRate, bankHolPay = bankHol x baseRate, holPay = hol x holidayRate and
\* doublePay = dbl x baseRate x doubleRate, each rounded to 2 decimals, a
\* negative or non-finite rate taken as 0.
C6_PayFormulas ==
    Done =>
        LET base == clampNonNeg(settings.baseRate)
            holRate == clampNonNeg(settings.holidayRate)
            doubleRate == clampNonNeg(settings.doubleRate)
        IN  /\ tot.stdPay = round2(tot.std * base, 100)
            /\ tot.sickPay = round2(tot.sick * base, 100)
            /\ tot.lieuPay = round2(tot.lieu * base, 100)
            /\ tot.bankHolPay = round2(tot.bankHol * base, 100)
            /\ tot.holPay = round2(tot.hol * holRate, 100)
            /\ tot.doublePay = round2Mul(tot.dbl * base, doubleRate, 10000)

\* A month with standard, lieu, holiday and double pay, the holiday rate
\* differing from the base rate.
C6_Witness ==
    /\ Done
    /\ tot.stdPay > 0 /\ tot.lieuPay > 0 /\ tot.holPay > 0 /\ tot.doublePay > 0
    /\ settings.holidayRate # settings.baseRate

RECURSIVE QualifyingOfRows(_)
QualifyingOfRows(n) ==
    IF n = 0 THEN 0
    ELSE QualifyingOfRows(n - 1)
         + bds[n].worked + bds[n].hol + bds[n].lieu + bds[n].bankHol

\* C7: the month's qualifying hours equal the sum over all rows of worked +
\* holiday + lieu + bankHoliday hours; double, sick and unpaid hours never
\* add to qualifying.
C7_QualifyingIsSum ==
    Done => tot.qualifying = QualifyingOfRows(Len(bds))

\* Two rows that carry double, sick and part-unpaid hours as well.
C7_Witness ==
    /\ Done
    /\ Len(rows) = 2
    /\ tot.dbl > 0 /\ tot.sick > 0 /\ tot.unpaidPart > 0
    /\ tot.qualifying > 0

\* C8: for a row with no flags set, worked equals
\* computeWorkedHours(startTime, endTime) and hol, lieu, bankHol, dbl,
\* unpaidFull and unpaidPart are all 0, for every scheduledHours.
C8_NoFlagsWorkedFromTimes ==
    Done => \A i \in RowIdx :
        NoFlags(rows[i]) =>
            /\ bds[i].worked = computeWorkedHours(rows[i].startTime, rows[i].endTime)
            /\ bds[i].hol = 0 /\ bds[i].lieu = 0 /\ bds[i].bankHol = 0
            /\ bds[i].dbl = 0 /\ bds[i].unpaidFull = 0 /\ bds[i].unpaidPart = 0

\* scheduledHours as a number of hours >= 0 (missing or invalid: 0).
ScheduledHours(r) ==
    IF IsFinite(r.scheduledHours) /\ r.scheduledHours > 0 THEN r.scheduledHours ELSE 0

\* C9 as stated: for every row with unpaid = full, late = 0, night = 0,
\* worked = 0 and unpaidFull = scheduledHours.
C9_FullUnpaid_Original ==
    Done => \A i \in RowIdx :
        rows[i].unpaidFlag = "Y" =>
            /\ bds[i].late = 0 /\ bds[i].night = 0 /\ bds[i].worked = 0
            /\ bds[i].unpaidFull = ScheduledHours(rows[i])

\* C9 (amended): for every row with unpaid = full, late = 0, night = 0,
\* worked = 0 and unpaidFull = the base shift length (scheduledHours if
\* positive, otherwise the computed worked hours).
C9_FullUnpaid ==
    Done => \A i \in RowIdx :
        rows[i].unpaidFlag = "Y" =>
            /\ bds[i].late = 0 /\ bds[i].night = 0 /\ bds[i].worked = 0
            /\ bds[i].unpaidFull = BaseShiftLength(rows[i])

\* A full unpaid day without scheduled hours, with times in the night
\* window and a double flag that would otherwise protect premiums.
C9_Witness ==
    /\ Done
    /\ \E i \in RowIdx :
        /\ rows[i].unpaidFlag = "Y" /\ rows[i].doubleFlag = "Y"
        /\ ScheduledHours(rows[i]) = 0
        /\ rows[i].startTime = HM(22, 0) /\ rows[i].endTime = HM(6, 0)
        /\ bds[i].unpaidFull = 800

\* C10: for a row with double = full and no full-day unpaid/holiday/lieu/
\* bankHoliday flag, worked stays the hours worked from the times and the
\* double bucket equals the base shift length.
C10_FullDouble ==
    Done => \A i \in RowIdx :
        (rows[i].doubleFlag = "Y" /\ FirstFull(rows[i]) = "none") =>
            /\ bds[i].worked = computeWorkedHours(rows[i].startTime, rows[i].endTime)
            /\ bds[i].dbl = BaseShiftLength(rows[i])

\* C11: double hours are a subset of worked hours: in every row
\* dbl <= worked, and in the month totals dbl <= worked.
C11_DoubleSubsetOfWorked ==
    Done =>
        /\ \A i \in RowIdx : bds[i].dbl <= bds[i].worked
        /\ tot.dbl <= tot.worked

\* The first part flag set, in the order unpaid, holiday, lieu,
\* bankHoliday, named by the bucket it fills.
FirstPart(r) ==
    IF r.unpaidFlag = "P" THEN "unpaidPart"
    ELSE IF r.holidayFlag = "P" THEN "hol"
    ELSE IF r.lieuFlag = "P" THEN "lieu"
    ELSE IF r.bankHolFlag = "P" THEN "bankHol"
    ELSE "none"

PartBuckets == {"unpaidPart", "hol", "lieu", "bankHol"}

\* The row with its unpaid, holiday, lieu and bankHoliday flags empty.
WithoutAbsenceFlags(r) ==
    [r EXCEPT !.unpaidFlag = "", !.holidayFlag = "", !.lieuFlag = "",
              !.bankHolFlag = ""]

\* C12: for a row with no full-day unpaid/holiday/lieu/bankHoliday flag,
\* the remainder max(0, baseShift - worked) goes whole to the bucket of
\* the first part flag set in the order unpaid, holiday, lieu,
\* bankHoliday, the other three of these buckets are 0, and worked is
\* what it is without the part flags.
C12_RemainderAllocatedOnce ==
    Done => \A i \in RowIdx :
        FirstFull(rows[i]) = "none" =>
            LET remainder == Max(0, BaseShiftLength(rows[i]) - bds[i].worked)
            IN  /\ \A f \in PartBuckets :
                       bds[i][f] = IF f = FirstPart(rows[i]) THEN remainder ELSE 0
                /\ bds[i].unpaidFull = 0
                /\ bds[i].worked =
                       computeRowBreakdown(WithoutAbsenceFlags(rows[i])).worked

\* scheduledHours = 10, times giving worked = 6, holiday = part:
\* hol = 4 and worked = 6.
C12_Witness ==
    /\ Done
    /\ \E i \in RowIdx :
        /\ rows[i].scheduledHours = 1000 /\ rows[i].holidayFlag = "P"
        /\ rows[i].unpaidFlag = "" /\ FirstFull(rows[i]) = "none"
        /\ bds[i].worked = 600 /\ bds[i].hol = 400

\* The row with its double flag empty.
WithoutDouble(r) == [r EXCEPT !.doubleFlag = ""]

C14_PremiumsBlocked ==
    Done => \A i \in RowIdx :
        (rows[i].unpaidFlag = "Y" \/ rows[i].holidayFlag = "Y") =>
            bds[i].late = 0 /\ bds[i].night = 0

\* A full holiday (unpaid flag empty) that also carries a lieu flag,
\* scheduled hours and times inside the late window.
C14_Witness ==
    /\ Done
    /\ \E i \in RowIdx :
        /\ rows[i].holidayFlag = "Y" /\ rows[i].unpaidFlag = ""
        /\ rows[i].lieuFlag # "" /\ rows[i].scheduledHours = 800
        /\ rows[i].startTime = HM(14, 0) /\ rows[i].endTime = HM(22, 0)
        /\ bds[i].hol = 800 /\ bds[i].late = 0 /\ bds[i].night = 0

\* A valid "HH:MM" time of day and its minute of the day.
ValidTime(t) == t.fmt = "hm" /\ t.hh \in 0..23 /\ t.mm \in 0..59
MinuteOfDay(t) == t.hh * 60 + t.mm

\* Minutes of the day inside the late window 14:00-22:00 and inside the
\* night window 22:00-06:00.
InLate(m) == (m % DayMin) >= 14 * 60 /\ (m % DayMin) < 22 * 60
InNight(m) == (m % DayMin) >= 22 * 60 \/ (m % DayMin) < 6 * 60

\* Hours (to 2 decimals) of the window of len minutes starting at minute s
\* that lie in the late window, and in the night window.
LateOfWindow(s, len) ==
    round2(Cardinality({m \in s..(s + len - 1) : InLate(m)}) * 100, 60)
NightOfWindow(s, len) ==
    round2(Cardinality({m \in s..(s + len - 1) : InNight(m)}) * 100, 60)

\* Whether a lieu, bankHoliday or double flag is set, and whether the row
\* is a full unpaid or full holiday day.
Protected(r) == r.lieuFlag # "" \/ r.bankHolFlag # "" \/ r.doubleFlag # ""
Blocked(r) == r.unpaidFlag = "Y" \/ r.holidayFlag = "Y"

\* scheduledHours in whole minutes.
ScheduledMinutes(r) == round2(r.scheduledHours * 60, 100)

\* C15: for a row with a lieu, bankHoliday or double flag, not blocked,
\* with a valid startTime and scheduledHours > 0, late and night are the
\* overlaps of the window [startTime, startTime + scheduledHours] with
\* 14:00-22:00 and 22:00-06:00, whatever endTime and worked are.
C15_ProtectedPremiums ==
    Done => \A i \in RowIdx :
        ( /\ Protected(rows[i]) /\ ~Blocked(rows[i])
          /\ ValidTime(rows[i].startTime)
          /\ IsFinite(rows[i].scheduledHours) /\ rows[i].scheduledHours > 0 ) =>
            /\ bds[i].late = LateOfWindow(MinuteOfDay(rows[i].startTime),
                                          ScheduledMinutes(rows[i]))
            /\ bds[i].night = NightOfWindow(MinuteOfDay(rows[i].startTime),
                                            ScheduledMinutes(rows[i]))

\* Minutes from startTime to endTime, an end not after the start being on
\* the next day.
ActualMinutes(r) ==
    IF MinuteOfDay(r.endTime) > MinuteOfDay(r.startTime)
    THEN MinuteOfDay(r.endTime) - MinuteOfDay(r.startTime)
    ELSE MinuteOfDay(r.endTime) + DayMin - MinuteOfDay(r.startTime)

\* C16: for a row with no lieu, bankHoliday or double flag and not
\* blocked, late and night are the overlaps of the window from startTime
\* to endTime with 14:00-22:00 and 22:00-06:00, and both are 0 whenever
\* worked = 0.
C16_UnprotectedPremiums ==
    Done => \A i \in RowIdx :
        (~Protected(rows[i]) /\ ~Blocked(rows[i])) =>
            /\ (ValidTime(rows[i].startTime) /\ ValidTime(rows[i].endTime)) =>
                   /\ bds[i].late = LateOfWindow(MinuteOfDay(rows[i].startTime),
                                                 ActualMinutes(rows[i]))
                   /\ bds[i].night = NightOfWindow(MinuteOfDay(rows[i].startTime),
                                                   ActualMinutes(rows[i]))
            /\ bds[i].worked = 0 => (bds[i].late = 0 /\ bds[i].night = 0)

\* An unflagged 8 h day worked 06:00-18:00: the 4 h after 14:00 are late
\* hours although they lie beyond the scheduled end.
C16_Witness ==
    /\ Done
    /\ \E i \in RowIdx :
        /\ NoFlags(rows[i]) /\ rows[i].scheduledHours = 800
        /\ rows[i].startTime = HM(6, 0) /\ rows[i].endTime = HM(18, 0)
        /\ bds[i].late = 400 /\ bds[i].night = 0

\* C17: for valid start and end times, computeLateNightHours returns
\* late = the shift minutes whose time of day lies in 14:00-22:00 and
\* night = the shift minutes whose time of day lies in 22:00-06:00, each
\* divided by 60 (to 2 decimals), an end not after the start being on the
\* next day.
C17_LateNightOverlap ==
    Done =>
        /\ res.lateHours =
               LateOfWindow(MinuteOfDay(times.startTime), ActualMinutes(times))
        /\ res.nightHours =
               NightOfWindow(MinuteOfDay(times.startTime), ActualMinutes(times))

\* 22:00-06:00 gives night = 8 and late = 0.
C17_Witness ==
    /\ Done
    /\ times.startTime = HM(22, 0) /\ times.endTime = HM(6, 0)
    /\ res.nightHours = 800 /\ res.lateHours = 0

\* C18: for valid start and end times, computeWorkedHours returns
\* (end - start) in hours when end > start and (end + 24h - start) when
\* end <= start; the result is in (0, 24], and 24 when end = start.
C18_WorkedHours ==
    Done =>
        /\ res.worked = round2(ActualMinutes(times) * 100, 60)
        /\ res.worked > 0 /\ res.worked <= 2400
        /\ times.endTime = times.startTime => res.worked = 2400

\* A shift whose end equals its start, counted as 24 hours.
C18_Witness ==
    /\ Done
    /\ times.startTime = HM(7, 59) /\ times.endTime = HM(7, 59)
    /\ res.worked = 2400

\* C19: for a row whose startTime or endTime is missing or not a valid
\* HH:MM time, worked = 0; late and night are 0 as well when startTime is
\* invalid, or when endTime is invalid and no lieu/bankHoliday/double flag
\* is set; and computeMonthTotals returns totals (every field a finite
\* number) for the whole list.
C19_BadTimesDegradeToZero ==
    Done =>
        /\ \A i \in RowIdx :
            (~ValidTime(rows[i].startTime) \/ ~ValidTime(rows[i].endTime)) =>
                /\ bds[i].worked = 0
                /\ ( \/ ~ValidTime(rows[i].startTime)
                     \/ (~ValidTime(rows[i].endTime) /\ ~Protected(rows[i])) ) =>
                       (bds[i].late = 0 /\ bds[i].night = 0)
        /\ \A f \in HourFields \cup PayFields : IsFinite(tot[f])

\* A row with startTime "24:30" (out of range), a valid endTime, scheduled
\* hours and a lieu flag, computed to worked = late = night = 0.
C19_Witness ==
    /\ Done
    /\ \E i \in RowIdx :
        /\ rows[i].startTime = HM(24, 30) /\ rows[i].endTime = HM(6, 0)
        /\ rows[i].lieuFlag = "P" /\ rows[i].scheduledHours = 800
        /\ ~Blocked(rows[i])
        /\ bds[i].worked = 0 /\ bds[i].late = 0 /\ bds[i].night = 0
        /\ bds[i].lieu = 800

\* sickHours values a row may be changed to, and the hours each counts for.
SickValues == {Undef, NaN, Inf, 0 - 300, 0, 250, 800}
SickOf(v) == IF IsFinite(v) /\ v > 0 THEN v ELSE 0

\* C20: changing one row's sickHours changes only the month's sick,
\* sickPay (= sick x baseRate) and totalPay; every other hour and pay
\* field stays the same, whatever flags the row carries.
C20_SickHoursSeparate ==
    Done => \A i \in RowIdx : \A v \in SickValues :
        LET changed == computeMonthTotals([rows EXCEPT ![i].sickHours = v], settings)
        IN  /\ \A f \in (HourFields \cup PayFields) \ {"sick", "sickPay", "totalPay"} :
                   changed[f] = tot[f]
            /\ changed.sick = tot.sick - SickOf(rows[i].sickHours) + SickOf(v)
            /\ changed.sickPay =
                   round2(changed.sick * clampNonNeg(settings.baseRate), 100)
            /\ changed.totalPay = tot.totalPay - tot.sickPay + changed.sickPay

\* A month holding a part-unpaid day with 2.5 sick hours, paid as sick pay.
C20_Witness ==
    /\ Done
    /\ \E i \in RowIdx :
        /\ rows[i].sickHours = 250 /\ rows[i].unpaidFlag = "P"
        /\ bds[i].sick = 250 /\ bds[i].worked = 400
    /\ tot.sick >= 250 /\ tot.sickPay > 0 /\ tot.totalPay > tot.sickPay

\* The orders in which n rows can be listed.
Perms(n) == {p \in [1..n -> 1..n] : \A i, j \in 1..n : p[i] = p[j] => i = j}

\* C21: computeMonthTotals gives identical totals for any permutation of
\* the same rows: the hol total of a month of full holidays is the same
\* in whatever order its rows are listed.
C21_OrderIndependent ==
    Done => \A p \in Perms(Len(dsum.terms)) :
        holTotal([i \in 1..Len(dsum.terms) |-> dsum.terms[p[i]]]) = dsum.hol

\* A stored property that holds a finite number.
StoredFinite(x) == x \notin {Undef, JNull, JText, NaN, Inf, NegInf}

\* C22: getSettings returns the default settings when nothing is stored
\* or the stored text is not valid JSON; otherwise each field is its
\* stored value when that is a finite number, and that field's default
\* when the stored value is missing, invalid or non-finite (a NaN that
\* was saved, which storage holds as null, included).
C22_GetSettingsFallback ==
    IF read.raw.kind # "obj" THEN read.value = DEFAULT_SETTINGS
    ELSE \A f \in SettingsFields :
        read.value[f] = IF StoredFinite(read.raw.obj[f]) THEN read.raw.obj[f]
                        ELSE DEFAULT_SETTINGS[f]

\* C23: after any sequence of save-day, update-shift, delete-shift and
\* clear-month operations the saved list holds at most one row per
\* calendar date.
C23_OneRowPerDate ==
    \A i, j \in 1..Len(hrows) : hrows[i].date = hrows[j].date => i = j

\* The list without its i-th row.
RemoveAt(q, i) == [j \in 1..(Len(q) - 1) |-> IF j < i THEN q[j] ELSE q[j + 1]]

\* C24: a row with unpaid = full and sickHours = 0 changes only the
\* unpaidFull total: every other hour field and every pay field is the
\* same as for the month without the row, whatever other flags, times and
\* scheduledHours the row carries.
C24_UnpaidFullAddsNoPay ==
    Done => \A i \in RowIdx :
        (rows[i].unpaidFlag = "Y" /\ SickOf(rows[i].sickHours) = 0) =>
            LET without == computeMonthTotals(RemoveAt(rows, i), settings)
            IN  \A f \in (HourFields \cup PayFields) \ {"unpaidFull"} :
                    tot[f] = without[f]


\* The hours a row puts into the buckets that feed qualifying or stand for
\* time off: worked, hol, lieu, bankHol, unpaidFull and unpaidPart.
DayHours(b) == b.worked + b.hol + b.lieu + b.bankHol + b.unpaidFull + b.unpaidPart

AnyAbsenceFlag(r) ==
    r.unpaidFlag # "" \/ r.holidayFlag # "" \/ r.lieuFlag # "" \/ r.bankHolFlag # ""

\* C25: for every row, worked + hol + lieu + bankHol + unpaidFull +
\* unpaidPart is at most the base shift length (scheduledHours if positive,
\* otherwise the computed worked hours), and equal to it whenever an
\* unpaid, holiday, lieu or bankHoliday flag (full or part) is set.
C25_NoHourTwice ==
    Done => \A i \in RowIdx :
        /\ DayHours(bds[i]) <= BaseShiftLength(rows[i])
        /\ AnyAbsenceFlag(rows[i]) => DayHours(bds[i]) = BaseShiftLength(rows[i])


\* k hundredths as a whole number of units of 2^-52, times 100.
HundredthsTimes100(k) == <<0, 0, 0, (k * (2 ^ 7)) % Limb, (k * (2 ^ 7)) \div Limb>>

BigLeq(a, b) ==
    \/ a[5] < b[5]
    \/ a[5] = b[5] /\ a[4] < b[4]
    \/ a[5] = b[5] /\ a[4] = b[4] /\ a[3] < b[3]
    \/ a[5] = b[5] /\ a[4] = b[4] /\ a[3] = b[3] /\ a[2] < b[2]
    \/ a[5] = b[5] /\ a[4] = b[4] /\ a[3] = b[3] /\ a[2] = b[2] /\ a[1] <= b[1]

\* The double k / 100 is at most the double d: k / 100 lies at or below
\* d, or within half a unit in the last place of d, so that the division
\* rounds to d itself.
HundredthsLeqDouble(k, d) ==
    BigLeq(BigMul(HundredthsTimes100(k), 2),
           BigAdd(BigMul(d, 200), <<100 * (2 ^ (BitLen(d) - 53)), 0, 0, 0, 0>>))

\* C25 for scheduledHours that are not multiples of 0.01: the part holiday
\* row with no times has worked = 0 and its hol bucket as the only hours,
\* and that bucket is at most the base shift length scheduledHours.
C25_PartWithinBaseShift ==
    drow.pc = "done" => HundredthsLeqDouble(drow.hol, drow.sched)


\* C26: for a row with no flags set and valid start and end times,
\* late + night <= worked, for every scheduledHours.
C26_PremiumsWithinWorked ==
    Done => \A i \in RowIdx :
        (NoFlags(rows[i]) /\ ValidTime(rows[i].startTime) /\ ValidTime(rows[i].endTime)) =>
            bds[i].late + bds[i].night <= bds[i].worked


\* C27: the 'Premiums today' late and night hours shown for the form
\* inputs equal the late and night hours the page's computeRowBreakdown
\* gives the row saved from those inputs, for every combination of the
\* five flags, start and end times and scheduled hours.
C27_PreviewMatchesSavedRow ==
    preview.pc = "saved" =>
        preview.lateHours = preview.late /\ preview.nightHours = preview.night


\* C28: whenever editingId is not null, a saved row with that id exists,
\* so that 'Update shift' replaces exactly that row and an edit is never
\* silently dropped, after any interleaving of edit, save, update, cancel,
\* delete and clear.
C28_EditedRowExists ==
    editingId # NoId => \E i \in 1..Len(hrows) : hrows[i].id = editingId


\* C29: saved shifts survive a reload: once the load and persist effects
\* of a page opened on a stored, non-empty list have run, the page and
\* storage hold exactly that list, and until the user acts the stored list
\* is the one found at mount.
C29_ShiftsSurviveReload ==
    (atMount.kind = "list" /\ Len(atMount.list) > 0 /\ hpc # "start" /\ ~acted) =>
        /\ lsMonth = atMount
        /\ hpc = "ready" => hrows = atMount.list


\* C30: after 'Restore defaults' on the Settings page, what getSettings
\* reads from storage equals DEFAULT_SETTINGS in every field, as on first
\* use with nothing stored.
C30_RestoreGivesDefaults ==
    [][restoreDefaults => getSettings(ls') = DEFAULT_SETTINGS]_vars

===========================================================================
